---- MODULE Spec2Model ----
(***************************************************************************)
(* A model of the event-sourcing core of eshorizon.                        *)
(*                                                                         *)
(* Part 1: the event store (src/src/eventstore.rs).  The EventStore trait  *)
(* is implemented by InMemoryEventStore, whose state is one vector of      *)
(* (aggregate id, events, version) tuples behind a tokio Mutex.  Callers   *)
(* are concurrent tasks; everything a call does to the vector happens      *)
(* while it holds the mutex and without an await in between, so the        *)
(* locked section of a call is one step of the model.  What a call does    *)
(* before it takes the mutex (the emptiness check of save, the drawing of  *)
(* a fresh Uuid) is a step of its own, so that calls overlap.              *)
(***************************************************************************)
EXTENDS Integers, Sequences, FiniteSets, TLC

\* ------------------------------------------------------------------ bounds
\* Event versions range over 1..MaxVersion, expected versions over 0..MaxVersion.
MaxVersion == 2
\* The longest batch of events handed to one save call.
MaxBatch == 2
\* The number of events handed to save (stored or in flight) in one behaviour.
MaxEvents == 2

\* The values of Uuid that occur: aggregate ids of events, ids callers ask
\* for, and the values Uuid::new_v4() may draw.
Ids == {"a1", "a2"}
\* The concurrent callers of the store.
Procs == {"p1", "p2"}

\* ------------------------------------------------------------ data types
\* Option<T>: None is the empty sequence, Some(x) the one-element sequence.
None == <<>>
Some(x) == <<x>>

\* An event as a caller sees it: event.rs gives every event the aggregate it
\* belongs to and its version.  The store treats events as opaque values.
Events == [aggregate_id : Ids, version : 1..MaxVersion]

RECURSIVE SeqsUpTo(_, _)
SeqsUpTo(S, n) ==
    IF n = 0 THEN {<<>>}
    ELSE LET shorter == SeqsUpTo(S, n - 1)
         IN  shorter \cup {Append(s, x) : s \in {t \in shorter : Len(t) = n - 1}, x \in S}

\* The batches a caller may hand to save, the empty one included.
Batches == SeqsUpTo(Events, MaxBatch)
\* The versions a caller may pass (expected version of save, version of load_from).
Versions == 0..MaxVersion

\* std::io::Error::new(kind, msg)
IoError(kind, msg) == [kind |-> kind, msg |-> msg]

EventStoreError_new(err, op, aggregate_type, aggregate_id, aggregate_version, events) ==
    [err |-> err, op |-> op, aggregate_type |-> aggregate_type,
     aggregate_id |-> aggregate_id, aggregate_version |-> aggregate_version,
     events |-> events]

\* Result<T, EventStoreError>
Ok(v) == [ok |-> TRUE, value |-> v, error |-> None]
Err(e) == [ok |-> FALSE, value |-> <<>>, error |-> Some(e)]

\* --------------------------------------------------- InMemoryEventStore
\* save without its check for an empty batch: every batch is pushed.
save_unchecked(st, events, original_version, new_id) ==
    [store |-> Append(st, <<new_id, events, original_version>>),
     result |-> Ok(<<>>)]

\* save, given the value new_id that Uuid::new_v4() draws: the store after the
\* call and the call's result.
save(st, events, original_version, new_id) ==
    IF events = <<>>
    THEN [store |-> st,
          result |-> Err(EventStoreError_new(
                        Some(IoError("InvalidInput", "missing events")),
                        Some("save"), None, None, None, <<>>))]
    ELSE [store |-> Append(st, <<new_id, events, original_version>>),
          result |-> Ok(<<>>)]

\* The position at which the iteration over the vector returns: the first of
\* the positions hits that satisfy the loop's condition, 0 when there is none.
FirstIndex(hits) ==
    IF hits = {} THEN 0 ELSE CHOOSE i \in hits : \A j \in hits : i <= j

\* load whose NotFound error leaves out the id that was asked for.
load_anonymous_error(st, aggregate_id) ==
    LET i == FirstIndex({k \in 1..Len(st) : st[k][1] = aggregate_id})
    IN  IF i /= 0
        THEN Ok(st[i][2])
        ELSE Err(EventStoreError_new(
                    Some(IoError("NotFound", "aggregate not found")),
                    Some("load"), None, None, None, <<>>))

load(st, aggregate_id) ==
    LET i == FirstIndex({k \in 1..Len(st) : st[k][1] = aggregate_id})
    IN  IF i /= 0
        THEN Ok(st[i][2])
        ELSE Err(EventStoreError_new(
                    Some(IoError("NotFound", "aggregate not found")),
                    Some("load"), None, Some(aggregate_id), None, <<>>))

load_from(st, aggregate_id, version) ==
    LET i == FirstIndex({k \in 1..Len(st) : st[k][1] = aggregate_id /\ st[k][3] >= version})
    IN  IF i /= 0
        THEN Ok(st[i][2])
        ELSE Err(EventStoreError_new(
                    Some(IoError("NotFound", "aggregate not found or version mismatch")),
                    Some("load_from"), None, Some(aggregate_id), Some(version), <<>>))

\* ------------------------------------------------------------------ state
VARIABLES
    store,      \* InMemoryEventStore.store: the vector of (id, events, version)
    pc,         \* per caller: "idle", or "save_lock" (in save, waiting for the mutex)
    pending,    \* per caller in save: the arguments and the Uuid drawn
    last        \* the call that returned last: its arguments and its result

vars == <<store, pc, pending, last>>

\* Part 2, the outbox (src/src/outbox.rs): the state of one SimpleOutbox, the
\* thread that owns it and its handlers.
VARIABLES
    handlers,   \* SimpleOutbox.handlers: the vector of (matcher, handler) pairs
    olock,      \* the holder of the Mutex around handlers, "none" when it is free
    opc,        \* per caller: "idle", "handle_lock" (in handle_event, waiting for
                \* the mutex) or "handling" (in the loop over the pairs)
    ocur,       \* per caller in handle_event: the event and the loop's position
    dlog,       \* every handler invocation so far: handler, event, outcome
    errors,     \* the unbounded error channel: what was sent and not yet received
    handed,     \* per aggregate: the highest version handed to handle_event
    spawned,    \* the number of threads start() has spawned
    closed,     \* close() has returned
    oret        \* the add_handler or handle_event call that returned last, and its result

ovars == <<handlers, olock, opc, ocur, dlog, errors, handed, spawned, closed, oret>>

\* Part 3, the event bus (src/src/eventbus.rs): the state of one EventBus and
\* its callers.
VARIABLES
    bus,        \* EventBus.handlers: the map from handler address to handler
    bpc,        \* per caller: "idle" or "add_lock" (in add_handler, before the mutex)
    barg,       \* per caller in add_handler: the handler and the matcher passed
    bret        \* the bus call that returned last, and its result

bvars == <<bus, bpc, barg, bret>>

\* Part 4, the functions without state (src/src/matcher.rs, middleware.rs,
\* command_check.rs).
VARIABLES
    fcall       \* one call of a function: its arguments and, once it is done, its result

fvars == <<fcall>>

\* Part 5, the factory registries (src/src/aggregate.rs, command_main.rs,
\* event.rs, snapshot.rs): one registry, its lock and its callers.
VARIABLES
    rkind,      \* which registry: AGGREGATES, COMMANDS, EVENT_DATA_FACTORIES or
                \* the factories of a SnapshotFactoryRegistry
    registry,   \* the HashMap behind the RwLock: type name -> factory
    poisoned,   \* the RwLock's poison flag
    rejected,   \* the type names whose second registration has panicked
    rret        \* the register or create call that ended last, and how it ended

rvars == <<rkind, registry, poisoned, rejected, rret>>

\* Part 6, event store maintenance (src/src/eventmaintenance.rs): the state
\* of one BasicEventStoreMaintenance.
VARIABLES
    mevents,    \* BasicEventStoreMaintenance.events: the vector of stored events
    mret        \* the replace or rename_event call that returned last, and its result

mvars == <<mevents, mret>>

allvars == <<vars, ovars, bvars, fvars, rvars, mvars>>

\* A step of one part leaves the other parts as they are.
StoreOnly == UNCHANGED <<ovars, bvars, fvars, rvars, mvars>>
OutboxOnly == UNCHANGED <<vars, bvars, fvars, rvars, mvars>>
BusOnly == UNCHANGED <<vars, ovars, fvars, rvars, mvars>>
FunctionsOnly == UNCHANGED <<vars, ovars, bvars, rvars, mvars>>
RegistryOnly == UNCHANGED <<vars, ovars, bvars, fvars, mvars>>
MaintenanceOnly == UNCHANGED <<vars, ovars, bvars, fvars, rvars>>

NoCall == [op |-> "none", events |-> <<>>, version |-> 0,
           aggregate_id |-> None, result |-> Ok(<<>>), seen |-> 0]

NoPending == [events |-> <<>>, original_version |-> 0, aggregate_id |-> None, seen |-> 0]

RECURSIVE Stored(_)
Stored(st) == IF st = <<>> THEN 0 ELSE Len(st[1][2]) + Stored(Tail(st))

RECURSIVE InFlight(_)
InFlight(ps) ==
    IF ps = {} THEN 0
    ELSE LET p == CHOOSE q \in ps : TRUE
         IN  Len(pending[p].events) + InFlight(ps \ {p})

Init ==
    /\ store = <<>>
    /\ pc = [p \in Procs |-> "idle"]
    /\ pending = [p \in Procs |-> NoPending]
    /\ last = NoCall

\* A caller enters save.  An empty batch returns at once; otherwise the call
\* draws its Uuid and goes on to wait for the mutex.  seen records how many
\* tuples the vector held when the call began.
SaveCall(p, events, original_version, new_id) ==
    /\ pc[p] = "idle"
    /\ Len(events) + Stored(store) + InFlight(Procs) <= MaxEvents
    /\ LET r == save(store, events, original_version, new_id)
       IN  IF ~r.result.ok /\ r.store = store
           THEN /\ last' = [op |-> "save", events |-> events,
                            version |-> original_version, aggregate_id |-> None,
                            result |-> r.result, seen |-> 0]
                /\ UNCHANGED <<store, pc, pending>>
           ELSE /\ pc' = [pc EXCEPT ![p] = "save_lock"]
                /\ pending' = [pending EXCEPT ![p] =
                                  [events |-> events, original_version |-> original_version,
                                   aggregate_id |-> Some(new_id), seen |-> Len(store)]]
                /\ UNCHANGED <<store, last>>
    /\ StoreOnly

\* The caller gets the mutex, pushes its tuple and returns.
SaveCommit(p) ==
    /\ pc[p] = "save_lock"
    /\ LET a == pending[p]
           r == save(store, a.events, a.original_version, a.aggregate_id[1])
       IN  /\ store' = r.store
           /\ last' = [op |-> "save", events |-> a.events,
                       version |-> a.original_version, aggregate_id |-> None,
                       result |-> r.result, seen |-> a.seen]
    /\ pc' = [pc EXCEPT ![p] = "idle"]
    /\ pending' = [pending EXCEPT ![p] = NoPending]
    /\ StoreOnly

Load(p, aggregate_id) ==
    /\ pc[p] = "idle"
    /\ last' = [op |-> "load", events |-> <<>>, version |-> 0,
                aggregate_id |-> Some(aggregate_id),
                result |-> load(store, aggregate_id), seen |-> 0]
    /\ UNCHANGED <<store, pc, pending>>
    /\ StoreOnly

LoadFrom(p, aggregate_id, version) ==
    /\ pc[p] = "idle"
    /\ last' = [op |-> "load_from", events |-> <<>>, version |-> version,
                aggregate_id |-> Some(aggregate_id),
                result |-> load_from(store, aggregate_id, version), seen |-> 0]
    /\ UNCHANGED <<store, pc, pending>>
    /\ StoreOnly

Next ==
    \E p \in Procs :
        \/ \E events \in Batches, v \in Versions, id \in Ids : SaveCall(p, events, v, id)
        \/ SaveCommit(p)
        \/ \E id \in Ids : Load(p, id)
        \/ \E id \in Ids, v \in Versions : LoadFrom(p, id, v)

\* ================================================================ outbox
\* The handler table's capacity in one behaviour.
MaxHandlers == 2
\* SimpleOutbox is neither Send nor Sync (its boxed matchers, handlers and
\* errors are not Send): every call is made by the thread that built it.
OutboxThreads == {"p1"}
\* The number of events handed to handle_event in one behaviour.
MaxDeliveries == 3
\* The number of calls of start() in one behaviour.
MaxStarts == 2

\* Event::event_type of the events that occur.
EventTypes == {"Created", "Renamed"}
\* The events handed to the outbox.  outbox.rs reads only their type; the
\* aggregate and the version are what event.rs gives every event.
OutboxEvents == [event_type : EventTypes, aggregate_id : Ids, version : 1..MaxVersion]

\* The matchers: MockEventMatcher { expected_type }.
Matchers == EventTypes
matches(matcher, event) == event.event_type = matcher

\* The handlers, each standing for its identity: "steady" always returns Ok,
\* "flaky" returns an error the first time it is given an event and Ok every
\* later time it is given the same event.
Handlers == {"steady", "flaky"}
handler_handle_event(handler, event, log) ==
    IF /\ handler = "flaky"
       /\ \A i \in 1..Len(log) : ~(log[i].handler = handler /\ log[i].event = event)
    THEN Err("handler failed")
    ELSE Ok(<<>>)

OutboxError(err, event) == [err |-> err, event |-> event]

\* Sender::send on the channel made by unbounded(): it never waits for room.
can_send_bounded(chan) == Len(chan) < 1

can_send(chan) == TRUE

send_error(chan, err) == Append(chan, err)

\* The loop body of handle_event with the matcher's answer ignored.
deliver_unmatched(pair, event, log, chan) ==
    LET r == handler_handle_event(pair[2], event, log)
    IN  [dlog |-> Append(log, [handler |-> pair[2], event |-> event, ok |-> r.ok]),
         errors |-> IF r.ok THEN chan
                    ELSE send_error(chan, OutboxError(r.error[1], event))]

\* The loop body of handle_event with a handler's error dropped.
deliver_silent(pair, event, log, chan) ==
    IF matches(pair[1], event)
    THEN LET r == handler_handle_event(pair[2], event, log)
         IN  [dlog |-> Append(log, [handler |-> pair[2], event |-> event, ok |-> r.ok]),
              errors |-> chan]
    ELSE [dlog |-> log, errors |-> chan]

\* The loop body of handle_event for one (matcher, handler) pair: the
\* invocation log and the error channel after it.
\* A delivery that, after the handler's turn, gives the handler again the
\* events it failed on before.
deliver_retrying(pair, event, log, chan) ==
    IF matches(pair[1], event)
    THEN LET r == handler_handle_event(pair[2], event, log)
             first == Append(log, [handler |-> pair[2], event |-> event, ok |-> r.ok])
             old == {i \in 1..Len(log) : log[i].handler = pair[2] /\ ~log[i].ok}
         IN  [dlog |-> IF old = {} THEN first
                       ELSE LET i == CHOOSE x \in old : TRUE
                            IN  Append(first, [handler |-> pair[2], event |-> log[i].event,
                                               ok |-> TRUE]),
              errors |-> IF r.ok THEN chan ELSE send_error(chan, OutboxError(r.error[1], event))]
    ELSE [dlog |-> log, errors |-> chan]

\* The loop body of a handle_event that gives up at the first handler error:
\* once a handler has failed on the event, no later pair is tried.
deliver_stopping(pair, event, log, chan) ==
    IF \E i \in 1..Len(log) : log[i].event = event /\ ~log[i].ok
    THEN [dlog |-> log, errors |-> chan]
    ELSE IF matches(pair[1], event)
    THEN LET r == handler_handle_event(pair[2], event, log)
         IN  [dlog |-> Append(log, [handler |-> pair[2], event |-> event, ok |-> r.ok]),
              errors |-> IF r.ok THEN chan
                         ELSE send_error(chan, OutboxError(r.error[1], event))]
    ELSE [dlog |-> log, errors |-> chan]

deliver(pair, event, log, chan) ==
    IF matches(pair[1], event)
    THEN LET r == handler_handle_event(pair[2], event, log)
         IN  [dlog |-> Append(log, [handler |-> pair[2], event |-> event, ok |-> r.ok]),
              errors |-> IF r.ok THEN chan
                         ELSE send_error(chan, OutboxError(r.error[1], event))]
    ELSE [dlog |-> log, errors |-> chan]

\* handle_event returning the failure of a handler to its caller.
handle_event_result_failing(event, log) ==
    IF \E i \in 1..Len(log) : log[i].event = event /\ ~log[i].ok
    THEN Err("handler failed")
    ELSE Ok(<<>>)

\* What handle_event returns once the loop is over.
handle_event_result(event, log) == Ok(<<>>)

\* add_handler: the table after the call and the call's result.
add_handler(table, matcher, handler) ==
    [handlers |-> Append(table, <<matcher, handler>>), result |-> Ok(<<>>)]

NoEvent == [event_type |-> "none", aggregate_id |-> "none", version |-> 0]
NoDelivery == [event |-> NoEvent, idx |-> 0]
NoReturn == [op |-> "none", event |-> NoEvent, result |-> Ok(<<>>)]

RECURSIVE Handed(_)
Handed(as) ==
    IF as = {} THEN 0
    ELSE LET a == CHOOSE x \in as : TRUE IN handed[a] + Handed(as \ {a})

OutboxInit ==
    /\ handlers = <<>>
    /\ olock = "none"
    /\ opc = [p \in OutboxThreads |-> "idle"]
    /\ ocur = [p \in OutboxThreads |-> NoDelivery]
    /\ dlog = <<>>
    /\ errors = <<>>
    /\ handed = [a \in Ids |-> 0]
    /\ spawned = 0
    /\ closed = FALSE
    /\ oret = NoReturn

\* A caller enters add_handler, takes the mutex, pushes the pair and returns.
AddHandler(p, matcher, handler) ==
    /\ opc[p] = "idle"
    /\ olock = "none"
    /\ Len(handlers) < MaxHandlers
    /\ LET r == add_handler(handlers, matcher, handler)
       IN  /\ handlers' = r.handlers
           /\ oret' = [op |-> "add_handler", event |-> NoEvent, result |-> r.result]
    /\ UNCHANGED <<olock, opc, ocur, dlog, errors, handed, spawned, closed>>
    /\ OutboxOnly

\* A caller enters handle_event.  The events of one aggregate are handed over
\* in the order of their versions, each once.
HandleCall(p, event) ==
    /\ opc[p] = "idle"
    /\ Handed(Ids) < MaxDeliveries
    /\ event.version = handed[event.aggregate_id] + 1
    /\ handed' = [handed EXCEPT ![event.aggregate_id] = event.version]
    /\ opc' = [opc EXCEPT ![p] = "handle_lock"]
    /\ ocur' = [ocur EXCEPT ![p] = [event |-> event, idx |-> 0]]
    /\ UNCHANGED <<handlers, olock, dlog, errors, spawned, closed, oret>>
    /\ OutboxOnly

\* The caller gets the mutex and starts the loop over the pairs.
HandleLock(p) ==
    /\ opc[p] = "handle_lock"
    /\ olock = "none"
    /\ olock' = p
    /\ opc' = [opc EXCEPT ![p] = "handling"]
    /\ ocur' = [ocur EXCEPT ![p].idx = 1]
    /\ UNCHANGED <<handlers, dlog, errors, handed, spawned, closed, oret>>
    /\ OutboxOnly

\* One round of the loop: the pair at the loop's position.
HandleStep(p) ==
    /\ opc[p] = "handling"
    /\ ocur[p].idx <= Len(handlers)
    /\ LET d == deliver(handlers[ocur[p].idx], ocur[p].event, dlog, errors)
       IN  /\ d.errors /= errors => can_send(errors)
           /\ dlog' = d.dlog
           /\ errors' = d.errors
    /\ ocur' = [ocur EXCEPT ![p].idx = @ + 1]
    /\ UNCHANGED <<handlers, olock, opc, handed, spawned, closed, oret>>
    /\ OutboxOnly

\* The loop is over: the mutex is released and handle_event returns.
HandleReturn(p) ==
    /\ opc[p] = "handling"
    /\ ocur[p].idx > Len(handlers)
    /\ olock' = "none"
    /\ opc' = [opc EXCEPT ![p] = "idle"]
    /\ ocur' = [ocur EXCEPT ![p] = NoDelivery]
    /\ oret' = [op |-> "handle_event", event |-> ocur[p].event,
                result |-> handle_event_result(ocur[p].event, dlog)]
    /\ UNCHANGED <<handlers, dlog, errors, handed, spawned, closed>>
    /\ OutboxOnly

\* start(): one more thread is spawned, whoever has called start() before.  The
\* thread prints its line and ends; it reads and writes nothing of the outbox.
Start(p) ==
    /\ opc[p] = "idle"
    /\ spawned < MaxStarts
    /\ spawned' = spawned + 1
    /\ UNCHANGED <<handlers, olock, opc, ocur, dlog, errors, handed, closed, oret>>
    /\ OutboxOnly

\* close(): prints its line and returns Ok.
Close(p) ==
    /\ opc[p] = "idle"
    /\ closed' = TRUE
    /\ UNCHANGED <<handlers, olock, opc, ocur, dlog, errors, handed, spawned, oret>>
    /\ OutboxOnly

OutboxNext ==
    \E p \in OutboxThreads :
        \/ \E m \in Matchers, h \in Handlers : AddHandler(p, m, h)
        \/ \E e \in OutboxEvents : HandleCall(p, e)
        \/ HandleLock(p)
        \/ HandleStep(p)
        \/ HandleReturn(p)
        \/ Start(p)
        \/ Close(p)

\* ------------------------------------------------------------ the event bus
\* An Arc is its allocation's address and the strong count seen by the callee:
\* the callee owns one reference, the caller may keep clones.
MaxStrong == 2
BusMatchers == {"m1", "m2"}
BusHandlers == {"h1", "h2", "h3"}
Arcs(addrs) == [addr : addrs, strong : 1..MaxStrong]
strong_count(arc) == arc.strong
\* Arc::as_ptr(&handler) as *const () as usize
handler_key(handler) == handler.addr

\* The part of add_handler before the mutex: None, or the error returned.
bus_check_args(matcher, handler) ==
    IF strong_count(matcher) = 0 THEN Some("MissingMatcher")
    ELSE IF strong_count(handler) = 0 THEN Some("MissingHandler")
    ELSE None

\* add_handler without the contains_key test: insert overwrites.
bus_insert_overwriting(table, handler) ==
    [table |-> table \cup {handler_key(handler)}, result |-> Ok(<<>>)]

\* The part of add_handler under the mutex; the table is the set of its keys
\* (the value stored under a key is the handler at that address).
bus_insert(table, handler) ==
    IF handler_key(handler) \in table
    THEN [table |-> table, result |-> Err("HandlerAlreadyAdded")]
    ELSE [table |-> table \cup {handler_key(handler)}, result |-> Ok(<<>>)]

\* What the table holds under a key: the value type of the map is
\* Arc<dyn EventHandler>, the handler at that address and nothing else.
bus_entry(table, key) == IF key \in table THEN Some([handler |-> key]) ELSE None

BusInit ==
    /\ bus = {}
    /\ bpc = [p \in Procs |-> "idle"]
    /\ barg = [p \in Procs |-> <<>>]
    /\ bret = <<>>

\* add_handler up to the mutex; bret records the last return: the handler's
\* key, the table at the contains_key test, the result, the table at return.
BusAddCall(p, matcher, handler) ==
    /\ bpc[p] = "idle"
    /\ LET early == bus_check_args(matcher, handler)
       IN  IF early /= None
           THEN /\ bret' = <<[key |-> handler_key(handler), matcher |-> matcher.addr,
                              before |-> bus, result |-> Err(early[1]), after |-> bus]>>
                /\ UNCHANGED <<bpc, barg>>
           ELSE /\ bpc' = [bpc EXCEPT ![p] = "add_lock"]
                /\ barg' = [barg EXCEPT ![p] = <<handler, matcher>>]
                /\ UNCHANGED bret
    /\ UNCHANGED bus
    /\ BusOnly

\* lock, contains_key, insert, return: the guard and the matcher, which no
\* field of the bus has taken, are dropped at the return.
BusAddCommit(p) ==
    /\ bpc[p] = "add_lock"
    /\ LET r == bus_insert(bus, barg[p][1])
       IN  /\ bus' = r.table
           /\ bret' = <<[key |-> handler_key(barg[p][1]), matcher |-> barg[p][2].addr,
                         before |-> bus, result |-> r.result, after |-> r.table]>>
    /\ bpc' = [bpc EXCEPT ![p] = "idle"]
    /\ barg' = [barg EXCEPT ![p] = <<>>]
    /\ BusOnly

BusNext ==
    \E p \in Procs :
        \/ \E matcher \in Arcs(BusMatchers), handler \in Arcs(BusHandlers) :
              BusAddCall(p, matcher, handler)
        \/ BusAddCommit(p)

\* ------------------------------------------------------------ the matchers
\* The longest list of types given to MatchEvents::new and MatchAggregates::new.
MaxTypes == 2
\* The longest list of matchers given to MatchAny::new and MatchAll::new.
MaxMatchers == 2

\* The values of EventType and AggregateType that occur.
EventTypeIds == {"t1", "t2"}
AggregateTypeIds == {"g1", "g2"}
\* TestEvent::new
TestEvents == [event_type : EventTypeIds, aggregate_type : AggregateTypeIds]

MatchEvents_new(event_types) == [kind |-> "MatchEvents", event_types |-> event_types]
MatchAggregates_new(aggregate_types) ==
    [kind |-> "MatchAggregates", aggregate_types |-> aggregate_types]
MatchAny_new(matchers) == [kind |-> "MatchAny", matchers |-> matchers]
MatchAll_new(matchers) == [kind |-> "MatchAll", matchers |-> matchers]

RECURSIVE dyn_matches(_, _)

\* MatchEvents that asks for every listed type.
MatchEvents_matches_all(self, event) ==
    \A i \in 1..Len(self.event_types) : event.event_type = self.event_types[i]

\* self.event_types.iter().any(|&t| event.event_type() == t)
MatchEvents_matches(self, event) ==
    \E i \in 1..Len(self.event_types) : event.event_type = self.event_types[i]

\* MatchAggregates that looks at the first listed type only.
MatchAggregates_matches_first(self, event) ==
    /\ self.aggregate_types /= <<>>
    /\ event.aggregate_type = self.aggregate_types[1]

\* self.aggregate_types.iter().any(|&t| event.aggregate_type() == t)
MatchAggregates_matches(self, event) ==
    \E i \in 1..Len(self.aggregate_types) : event.aggregate_type = self.aggregate_types[i]

\* MatchAny that matches when it has no matchers.
MatchAny_matches_empty(self, event) ==
    \/ self.matchers = <<>>
    \/ \E i \in 1..Len(self.matchers) : dyn_matches(self.matchers[i], event)

\* self.matchers.iter().any(|matcher| matcher.matches(event))
MatchAny_matches(self, event) ==
    \E i \in 1..Len(self.matchers) : dyn_matches(self.matchers[i], event)

\* MatchAll that rejects when it has no matchers.
MatchAll_matches_nonempty(self, event) ==
    /\ self.matchers /= <<>>
    /\ \A i \in 1..Len(self.matchers) : dyn_matches(self.matchers[i], event)

\* self.matchers.iter().all(|matcher| matcher.matches(event))
MatchAll_matches(self, event) ==
    \A i \in 1..Len(self.matchers) : dyn_matches(self.matchers[i], event)

\* matcher.matches(event) on a Box<dyn EventMatcher>: the impl of the value's type.
dyn_matches(matcher, event) ==
    CASE matcher.kind = "MatchEvents" -> MatchEvents_matches(matcher, event)
      [] matcher.kind = "MatchAggregates" -> MatchAggregates_matches(matcher, event)
      [] matcher.kind = "MatchAny" -> MatchAny_matches(matcher, event)
      [] matcher.kind = "MatchAll" -> MatchAll_matches(matcher, event)

\* The matchers that occur: every MatchEvents and MatchAggregates, and MatchAny
\* and MatchAll over lists of some of those and of some MatchAny and MatchAll.
LeafMatchers ==
    {MatchEvents_new(ts) : ts \in SeqsUpTo(EventTypeIds, MaxTypes)}
    \cup {MatchAggregates_new(gs) : gs \in SeqsUpTo(AggregateTypeIds, MaxTypes)}
SubMatchers ==
    {MatchEvents_new(<<>>), MatchEvents_new(<<"t1">>), MatchAggregates_new(<<"g1">>),
     MatchAny_new(<<>>), MatchAll_new(<<>>),
     MatchAny_new(<<MatchEvents_new(<<"t2">>), MatchAggregates_new(<<"g1">>)>>),
     MatchAll_new(<<MatchEvents_new(<<"t1">>), MatchAggregates_new(<<"g2">>)>>)}
ListMatchers ==
    {MatchAny_new(ms) : ms \in SeqsUpTo(SubMatchers, MaxMatchers)}
    \cup {MatchAll_new(ms) : ms \in SeqsUpTo(SubMatchers, MaxMatchers)}
EventMatchers == LeafMatchers \cup ListMatchers

\* ---------------------------------------------------------- the middleware
\* The longest list of middlewares given to use_*_handler_middleware.
MaxMiddlewares == 3
\* The middlewares that occur: each prints its "before" line, calls next with
\* the command it was given and prints its "after" line, as the tests' do.
Middlewares == {"m1", "m2", "m3"}
Commands == {"TestCommand"}
\* What the terminal handler's work comes to (commandhandler.rs: Ok(()) or a
\* CommandHandlerError); handle_command of middleware.rs has no return value.
Outcomes == {Ok(<<>>), Err("Command handling failed")}
Terminals == [kind : {"terminal"}, outcome : Outcomes]
unit == <<>>

\* middleware(h): the handler whose closure owns next.
apply_middleware(middleware, next) == [kind |-> "wrapped", mw |-> middleware, next |-> next]

\* The loop without .rev(): the first middleware is applied first.
RECURSIVE use_handler_middleware_forward(_, _)
use_handler_middleware_forward(handler, middlewares) ==
    IF middlewares = <<>> THEN handler
    ELSE use_handler_middleware_forward(apply_middleware(middlewares[1], handler),
                                        Tail(middlewares))

\* let mut h = handler; for middleware in middlewares.into_iter().rev() { h = middleware(h); } h
RECURSIVE use_handler_middleware_rev(_, _)
use_handler_middleware_rev(handler, middlewares) ==
    IF middlewares = <<>> THEN handler
    ELSE use_handler_middleware_rev(
             apply_middleware(middlewares[Len(middlewares)], handler),
             SubSeq(middlewares, 1, Len(middlewares) - 1))

use_command_handler_middleware(handler, middlewares) ==
    use_handler_middleware_rev(handler, middlewares)

use_event_handler_middleware(handler, middlewares) ==
    use_handler_middleware_rev(handler, middlewares)

\* h.handle_command(command) / h.handle_event(event): what runs, in order, and
\* the value the call returns, which is () for every handler.
RECURSIVE handle(_, _)
handle(h, command) ==
    IF h.kind = "terminal"
    THEN [trace |-> <<[who |-> "terminal", phase |-> "handle", arg |-> command,
                       outcome |-> h.outcome]>>,
          returned |-> unit]
    ELSE LET inner == handle(h.next, command)
         IN  [trace |-> <<[who |-> h.mw, phase |-> "before", arg |-> command,
                           outcome |-> Ok(<<>>)]>>
                        \o inner.trace
                        \o <<[who |-> h.mw, phase |-> "after", arg |-> command,
                              outcome |-> Ok(<<>>)]>>,
              returned |-> unit]

\* ---------------------------------------------------------- command_check
NilUuid == "nil"
CommandIds == Ids \cup {NilUuid}
MyCommands == [id : CommandIds]
ERR_MISSING_AGGREGATE_ID == "missing aggregate ID"
CommandCheckError_new(field) == [field |-> field]
\* impl Command for MyCommand
Command_aggregate_id(cmd) == cmd.id
\* impl IsZero for Uuid
is_zero(id) == id = NilUuid

\* check_command that takes the nil id for a valid one and rejects the others.
check_command_inverted(cmd) ==
    IF ~is_zero(Command_aggregate_id(cmd))
    THEN Err(CommandCheckError_new(ERR_MISSING_AGGREGATE_ID))
    ELSE Ok(<<>>)

check_command(cmd) ==
    IF is_zero(Command_aggregate_id(cmd))
    THEN Err(CommandCheckError_new(ERR_MISSING_AGGREGATE_ID))
    ELSE Ok(<<>>)

\* ------------------------------------------------------- calls of functions
\* The calls that occur, by function and arguments.
FunctionCalls ==
    [fn : {"matches"}, matcher : EventMatchers, event : TestEvents]
    \cup [fn : {"use_command_handler_middleware", "use_event_handler_middleware"},
          handler : Terminals, middlewares : SeqsUpTo(Middlewares, MaxMiddlewares),
          arg : Commands]
    \cup [fn : {"check_command"}, cmd : MyCommands]

NoCallYet == [fn |-> "none"]
Called(args) == [args |-> args, done |-> FALSE, result |-> "none"]
Returned(args, result) == [args |-> args, done |-> TRUE, result |-> result]

\* No function is being called (the other parts' behaviours).
FunctionsIdle == fcall = Called(NoCallYet)

\* Some function has been called with some arguments.
FunctionsInit == fcall \in {Called(args) : args \in FunctionCalls}

\* matcher.matches(&event)
MatchCall ==
    /\ ~fcall.done /\ fcall.args.fn = "matches"
    /\ fcall' = Returned(fcall.args, dyn_matches(fcall.args.matcher, fcall.args.event))
    /\ FunctionsOnly

\* use_command_handler_middleware(handler, middlewares).handle_command(command)
UseCommandMiddleware ==
    /\ ~fcall.done /\ fcall.args.fn = "use_command_handler_middleware"
    /\ LET h == use_command_handler_middleware(fcall.args.handler, fcall.args.middlewares)
       IN  fcall' = Returned(fcall.args, handle(h, fcall.args.arg))
    /\ FunctionsOnly

\* use_event_handler_middleware(handler, middlewares).handle_event(event)
UseEventMiddleware ==
    /\ ~fcall.done /\ fcall.args.fn = "use_event_handler_middleware"
    /\ LET h == use_event_handler_middleware(fcall.args.handler, fcall.args.middlewares)
       IN  fcall' = Returned(fcall.args, handle(h, fcall.args.arg))
    /\ FunctionsOnly

\* check_command(&cmd)
CheckCommand ==
    /\ ~fcall.done /\ fcall.args.fn = "check_command"
    /\ fcall' = Returned(fcall.args, check_command(fcall.args.cmd))
    /\ FunctionsOnly

FunctionsNext ==
    \/ MatchCall
    \/ UseCommandMiddleware
    \/ UseEventMiddleware
    \/ CheckCommand

\* ------------------------------------------------------ the factory registries
RegistryKinds == {"aggregate", "command", "event_data", "snapshot_data"}
\* The type names given to register and create, the empty String included.
TypeNames == {"", "A", "B"}
\* The factories, each standing for its identity.
Factories == {"f1", "f2"}

\* create_aggregate and create_snapshot_data pass an id to the factory,
\* create_command and create_event_data call it without arguments.
NoId == "no id"
takes_id(kind) == kind \in {"aggregate", "snapshot_data"}
CreateIds(kind) == IF takes_id(kind) THEN Ids ELSE {NoId}

\* factory(id), factory(): the instance a factory makes; an aggregate's
\* entity_id() is the id its factory was given.
factory_call(factory, id) == [made_by |-> factory, entity_id |-> id]

\* The error of create for a name the map does not hold.
not_registered(kind) ==
    CASE kind = "aggregate" -> "Aggregate not registered"
      [] kind = "command" -> "Command not registered"
      [] kind = "event_data" -> "event data not registered"
      [] kind = "snapshot_data" -> "snapshot data not registered"

\* How a call ends: it returns a value or it panics with a message.
Returns(v) == [panicked |-> FALSE, value |-> v, message |-> ""]
Panics(msg) == [panicked |-> TRUE, value |-> <<>>, message |-> msg]
PoisonError == "called Result::unwrap() on an Err value: PoisonError"

\* HashMap::insert
map_insert(map, key, value) ==
    [k \in DOMAIN map \cup {key} |-> IF k = key THEN value ELSE map[k]]

\* register without the contains_key test: insert replaces the old factory.
register_overwriting(kind, map, poison, name, factory) ==
    IF kind = "snapshot_data" /\ name = ""
    THEN [map |-> map, poison |-> poison,
          end |-> Panics("attempt to register empty aggregate type")]
    ELSE IF poison
    THEN [map |-> map, poison |-> poison, end |-> Panics(PoisonError)]
    ELSE [map |-> map_insert(map, name, factory), poison |-> poison, end |-> Returns(<<>>)]

\* register_aggregate, register_command, register_event_data and
\* register_snapshot_data: the map and the poison flag after the call, and
\* how the call ends.  The duplicate's panic unwinds through the write guard,
\* which poisons the lock as it is dropped.
register(kind, map, poison, name, factory) ==
    IF kind = "snapshot_data" /\ name = ""
    THEN [map |-> map, poison |-> poison,
          end |-> Panics("attempt to register empty aggregate type")]
    ELSE IF poison
    THEN [map |-> map, poison |-> poison, end |-> Panics(PoisonError)]
    ELSE IF name \in DOMAIN map
    THEN [map |-> map, poison |-> TRUE, end |-> Panics("duplicate type registration")]
    ELSE [map |-> map_insert(map, name, factory), poison |-> poison, end |-> Returns(<<>>)]

\* create_aggregate, create_command, create_event_data, create_snapshot_data
create(kind, map, poison, name, id) ==
    IF poison THEN Panics(PoisonError)
    ELSE IF name \in DOMAIN map THEN Returns(Ok(factory_call(map[name], id)))
    ELSE Returns(Err(not_registered(kind)))

NoRegistryCall == [op |-> "none"]

RegistryEmpty ==
    /\ registry = <<>>
    /\ poisoned = FALSE
    /\ rejected = {}
    /\ rret = NoRegistryCall

\* No registry is in use (the other parts' behaviours).
RegistryIdle == rkind = "aggregate" /\ RegistryEmpty

\* One of the four registries, as constructed.
RegistryInit == rkind \in RegistryKinds /\ RegistryEmpty

\* Some thread calls register; a panic ends that thread (or is caught), the
\* registry stays with the others.
Register(name, factory) ==
    /\ LET r == register(rkind, registry, poisoned, name, factory)
       IN  /\ registry' = r.map
           /\ poisoned' = r.poison
           /\ rejected' = IF ~poisoned /\ r.poison THEN rejected \cup {name} ELSE rejected
           /\ rret' = [op |-> "register", name |-> name, factory |-> factory,
                       end |-> r.end]
    /\ UNCHANGED rkind
    /\ RegistryOnly

\* Some thread calls create.
Create(name, id) ==
    /\ rret' = [op |-> "create", name |-> name, id |-> id,
                end |-> create(rkind, registry, poisoned, name, id)]
    /\ UNCHANGED <<rkind, registry, poisoned, rejected>>
    /\ RegistryOnly

RegistryNext ==
    \/ \E name \in TypeNames, factory \in Factories : Register(name, factory)
    \/ \E name \in TypeNames, id \in CreateIds(rkind) : Create(name, id)

\* ------------------------------------------------- event store maintenance
\* The most events the vector holds.
MaxStored == 2

\* The stored events: eventmaintenance.rs reads only their type; the
\* aggregate and the version are what event.rs gives every event.
StoredTypes == {"OldEvent", "NewEvent"}
StoredEvents == [event_type : StoredTypes, aggregate_id : Ids, version : 1..MaxVersion]

\* The positions of the stored events the test of replace's loop accepts.
same_type(events, event) ==
    {i \in 1..Len(events) : events[i].event_type = event.event_type}

\* replace that writes the event over every stored event of its type.
replace_every(events, event) ==
    IF same_type(events, event) = {}
    THEN [events |-> events, result |-> Err("Event not found")]
    ELSE [events |-> [i \in 1..Len(events) |->
                         IF i \in same_type(events, event) THEN event ELSE events[i]],
          result |-> Ok(<<>>)]

\* BasicEventStoreMaintenance::replace: the vector after the call and the
\* call's result.  The loop stops at the first stored event of the same type.
replace(events, event) ==
    IF same_type(events, event) = {}
    THEN [events |-> events, result |-> Err("Event not found")]
    ELSE LET first == CHOOSE i \in same_type(events, event) :
                          \A j \in same_type(events, event) : i <= j
         IN  [events |-> [events EXCEPT ![first] = event], result |-> Ok(<<>>)]

\* BasicEventStoreMaintenance::rename_event: the loop prints a line for every
\* stored event of type `from` and writes nothing.
rename_event(events, from, to) == [events |-> events, result |-> Ok(<<>>)]

NoMaintenanceCall == [op |-> "none"]

MaintenanceInit ==
    /\ mevents = <<>>
    /\ mret = NoMaintenanceCall

\* events.lock().await.push(event): how an event gets into the vector.
Push(event) ==
    /\ Len(mevents) < MaxStored
    /\ mevents' = Append(mevents, event)
    /\ UNCHANGED mret
    /\ MaintenanceOnly

Replace(event) ==
    /\ LET r == replace(mevents, event)
       IN  /\ mevents' = r.events
           /\ mret' = [op |-> "replace", event |-> event, result |-> r.result]
    /\ MaintenanceOnly

RenameEvent(from, to) ==
    /\ LET r == rename_event(mevents, from, to)
       IN  /\ mevents' = r.events
           /\ mret' = [op |-> "rename_event", from |-> from, to |-> to,
                       result |-> r.result]
    /\ MaintenanceOnly

MaintenanceNext ==
    \/ \E event \in StoredEvents : Push(event)
    \/ \E event \in StoredEvents : Replace(event)
    \/ \E from \in StoredTypes, to \in StoredTypes : RenameEvent(from, to)

AllInit ==
    Init /\ OutboxInit /\ BusInit /\ FunctionsIdle /\ RegistryIdle /\ MaintenanceInit

Spec == AllInit /\ [][Next]_allvars

SpecOutbox == AllInit /\ [][OutboxNext]_allvars

SpecBus == AllInit /\ [][BusNext]_allvars

\* The other parts in their initial states, and a function called.
CalledInit ==
    Init /\ OutboxInit /\ BusInit /\ FunctionsInit /\ RegistryIdle /\ MaintenanceInit

\* ------------------------------------------------------ comparing events
\* The most fields in which the second event of a comparison differs from
\* the first.
MaxDiffer == 2

\* A CloneableAny: the type and the value of what its Box holds, and the
\* address of the Box's allocation.
CloneableAny_new(type, val, addr) == [type |-> type, val |-> val, addr |-> addr]

\* impl Clone for CloneableAny, for the two types it supports: the value in
\* a new Box, an allocation of its own within the named owner.
CloneableAny_clone(v, owner) == [v EXCEPT !.addr = <<owner>> \o @]

\* HashMap<String, CloneableAny>::clone and ::remove
metadata_clone(m, owner) == [k \in DOMAIN m |-> CloneableAny_clone(m[k], owner)]
metadata_remove(m, key) == [k \in DOMAIN m \ {key} |-> m[k]]

\* The payloads and the metadata maps of the events compared, without their
\* addresses: a payload is a type and a value, a map gives some keys a payload.
Payloads == {<<"i32", "42">>, <<"i32", "43">>, <<"String", "42">>}
NoMetadata == <<>>
OneKey == [k \in {"key1"} |-> <<"String", "value1">>]
OtherValue == [k \in {"key1"} |-> <<"String", "value2">>]
WithPosition == [k \in {"key1", "position"} |->
                    IF k = "key1" THEN <<"String", "value1">> ELSE <<"i32", "7">>]
MetadataMaps == {NoMetadata, OneKey, OtherValue, WithPosition}

\* TestEvent { .. }: the event held by the named variable; every boxed value
\* is an allocation of that event.
TestEvent(owner, event_type, data, timestamp, aggregate_type, aggregate_id, version, metadata) ==
    [event_type |-> event_type,
     data |-> CloneableAny_new(data[1], data[2], <<owner, "data">>),
     timestamp |-> timestamp,
     aggregate_type |-> aggregate_type,
     aggregate_id |-> aggregate_id,
     version |-> version,
     metadata |-> [k \in DOMAIN metadata |->
                      CloneableAny_new(metadata[k][1], metadata[k][2], <<owner, k>>)]]

\* Event::metadata of TestEvent: self.metadata.clone()
Event_metadata(e) == metadata_clone(e.metadata, "metadata()")

\* e.data().type_id(): data() returns an Arc<CloneableAny> and the call
\* resolves to Any::type_id of that Arc, whatever the Box inside holds.
Event_data_type_id(e) == "Arc<CloneableAny>"

CompareOptions == {"ignore_timestamp", "ignore_version", "ignore_position_metadata"}

\* CompareConfig::new and the options applied to it
CompareConfig(options) ==
    [ignore_timestamp |-> "ignore_timestamp" \in options,
     ignore_version |-> "ignore_version" \in options,
     ignore_position |-> "ignore_position_metadata" \in options]

CompareError_new(msg) == [details |-> msg]

compare_metadata(m1, m2, ignore_position) ==
    LET c1 == metadata_clone(m1, "m1_filtered")
        c2 == metadata_clone(m2, "m2_filtered")
        m1_filtered == IF ignore_position THEN metadata_remove(c1, "position") ELSE c1
        m2_filtered == IF ignore_position THEN metadata_remove(c2, "position") ELSE c2
    IN  IF Cardinality(DOMAIN m1_filtered) /= Cardinality(DOMAIN m2_filtered) THEN FALSE
        ELSE \A key \in DOMAIN m1_filtered :
                /\ key \in DOMAIN m2_filtered
                /\ m1_filtered[key].addr = m2_filtered[key].addr

compare_events(e1, e2, options) ==
    LET config == CompareConfig(options)
    IN  IF e1.event_type /= e2.event_type
        THEN Err(CompareError_new("Event type mismatch"))
        ELSE IF Event_data_type_id(e1) /= Event_data_type_id(e2)
        THEN Err(CompareError_new("Event data mismatch"))
        ELSE IF ~config.ignore_timestamp /\ e1.timestamp /= e2.timestamp
        THEN Err(CompareError_new("Timestamp mismatch"))
        ELSE IF e1.aggregate_type /= e2.aggregate_type
        THEN Err(CompareError_new("Aggregate type mismatch"))
        ELSE IF e1.aggregate_id /= e2.aggregate_id
        THEN Err(CompareError_new("Aggregate ID mismatch"))
        ELSE IF ~config.ignore_version /\ e1.version /= e2.version
        THEN Err(CompareError_new("Version mismatch"))
        ELSE IF ~compare_metadata(Event_metadata(e1), Event_metadata(e2),
                                  config.ignore_position)
        THEN Err(CompareError_new("Metadata mismatch"))
        ELSE Ok(<<>>)

\* The fields of an event, and for a value of a field another value of it.
EventFields == {"event_type", "data", "timestamp", "aggregate_type",
                "aggregate_id", "version", "metadata"}
another(field, x) ==
    CASE field = "event_type" -> "OtherEvent"
      [] field = "data" -> IF x = <<"i32", "42">> THEN <<"i32", "43">>
                           ELSE IF x = <<"i32", "43">> THEN <<"String", "42">>
                           ELSE <<"i32", "42">>
      [] field = "timestamp" -> "later"
      [] field = "aggregate_type" -> "OtherAggregate"
      [] field = "aggregate_id" -> "a2"
      [] field = "version" -> 2
      [] field = "metadata" -> IF x = NoMetadata THEN OneKey
                               ELSE IF x = OneKey THEN OtherValue
                               ELSE IF x = OtherValue THEN WithPosition
                               ELSE OneKey

\* The two events of a comparison: event1 with the given payload and
\* metadata, and event2, a clone of it but for the fields named.
event1(data, metadata) ==
    TestEvent("event1", "TestEvent", data, "now", "TestAggregate", "a1", 1, metadata)
event2(data, metadata, differ) ==
    TestEvent("event2",
              IF "event_type" \in differ THEN another("event_type", "TestEvent") ELSE "TestEvent",
              IF "data" \in differ THEN another("data", data) ELSE data,
              IF "timestamp" \in differ THEN another("timestamp", "now") ELSE "now",
              IF "aggregate_type" \in differ THEN another("aggregate_type", "TestAggregate")
              ELSE "TestAggregate",
              IF "aggregate_id" \in differ THEN another("aggregate_id", "a1") ELSE "a1",
              IF "version" \in differ THEN another("version", 1) ELSE 1,
              IF "metadata" \in differ THEN another("metadata", metadata) ELSE metadata)

CompareCalls ==
    [fn : {"compare_events"}, data : Payloads, metadata : MetadataMaps,
     differ : {d \in SUBSET EventFields : Cardinality(d) <= MaxDiffer},
     options : SUBSET CompareOptions]

\* Two events have been built and compare_events is called on them.
CompareInit == fcall \in {Called(args) : args \in CompareCalls}

\* compare_events(&event1, &event2, &options)
CompareEvents ==
    /\ ~fcall.done /\ fcall.args.fn = "compare_events"
    /\ fcall' = Returned(fcall.args,
                         compare_events(event1(fcall.args.data, fcall.args.metadata),
                                        event2(fcall.args.data, fcall.args.metadata,
                                               fcall.args.differ),
                                        fcall.args.options))
    /\ FunctionsOnly

CompareNext == CompareEvents

ComparedInit ==
    Init /\ OutboxInit /\ BusInit /\ CompareInit /\ RegistryIdle /\ MaintenanceInit

SpecCompare == ComparedInit /\ [][CompareNext]_allvars

\* ------------------------------------------------ the repository's load
\* The longest history of an aggregate.
MaxHistory == 3

\* A zero-value aggregate, as the type's factory makes it, and the effect of
\* one event on an aggregate: the observable state is what has been applied.
Aggregate_new(id) == [id |-> id, version |-> 0, applied |-> <<>>]
apply_event(agg, event) ==
    [agg EXCEPT !.version = event.version, !.applied = Append(@, event)]

RECURSIVE replay(_, _)
replay(agg, events) ==
    IF events = <<>> THEN agg
    ELSE replay(apply_event(agg, Head(events)), Tail(events))

\* Snapshotable::create_snapshot and ::apply_snapshot
create_snapshot(agg) == [version |-> agg.version, state |-> agg]
apply_snapshot(agg, snapshot) == snapshot.state

\* The history of an aggregate: its events with the versions 1..n.
HistoryOf(id, n) == [v \in 1..n |-> [aggregate_id |-> id, version |-> v]]

RECURSIVE Sum(_)
Sum(sizes) == IF sizes = <<>> THEN 0 ELSE Head(sizes) + Sum(Tail(sizes))

\* The ways to commit a history of n events: the sizes of the batches.
BatchSizes(n) == {sizes \in SeqsUpTo(1..n, n) : Sum(sizes) = n}

\* Repository.save, batch after batch: event_store.save(uncommitted events,
\* aggregate.version), with the value Uuid::new_v4() draws in each save.
RECURSIVE save_all(_, _, _, _, _)
save_all(st, history, sizes, version, new_ids) ==
    IF sizes = <<>> THEN st
    ELSE save_all(save(st, SubSeq(history, 1, Head(sizes)), version, Head(new_ids)).store,
                  SubSeq(history, Head(sizes) + 1, Len(history)),
                  Tail(sizes), version + Head(sizes), Tail(new_ids))

\* Repository.load: with a snapshot, the aggregate at the snapshot's state and
\* the events of load_from(id, snapshot.version + 1) on top of it; without,
\* a zero-value aggregate and the events of load(id); NotFound when there is
\* neither a snapshot nor any event.
Repository_load(st, snapshot, id) ==
    IF snapshot /= None
    THEN LET agg == apply_snapshot(Aggregate_new(id), snapshot[1])
             r == load_from(st, id, snapshot[1].version + 1)
         IN  IF r.ok THEN Ok(replay(agg, r.value)) ELSE Ok(agg)
    ELSE LET r == load(st, id)
         IN  IF r.ok THEN Ok(replay(Aggregate_new(id), r.value))
             ELSE Err("NotFound")

\* The loads that occur: an aggregate with a history committed in batches,
\* and no snapshot or the snapshot taken at one of the history's versions.
LoadCalls ==
    UNION {[fn : {"Repository.load"}, id : Ids, n : {n}, sizes : {sizes},
            new_ids : [1..Len(sizes) -> Ids], snapshot_at : 0..n] :
           <<n, sizes>> \in {<<m, z>> \in (1..MaxHistory) \X SeqsUpTo(1..MaxHistory, MaxHistory) :
                                z \in BatchSizes(m)}}

\* The snapshot store's answer: snapshot_at = 0 stands for no snapshot.
snapshot_taken(id, n, k) ==
    IF k = 0 THEN None
    ELSE Some(create_snapshot(replay(Aggregate_new(id), SubSeq(HistoryOf(id, n), 1, k))))

LoadInit == fcall \in {Called(args) : args \in LoadCalls}

\* The history is committed and the aggregate is loaded.
RepositoryLoad ==
    /\ ~fcall.done /\ fcall.args.fn = "Repository.load"
    /\ LET a == fcall.args
           st == save_all(<<>>, HistoryOf(a.id, a.n), a.sizes, 0, a.new_ids)
       IN  fcall' = Returned(a, Repository_load(st, snapshot_taken(a.id, a.n, a.snapshot_at),
                                                a.id))
    /\ FunctionsOnly

RepositoryNext == RepositoryLoad

LoadedInit ==
    Init /\ OutboxInit /\ BusInit /\ LoadInit /\ RegistryIdle /\ MaintenanceInit

SpecRepository == LoadedInit /\ [][RepositoryNext]_allvars

\* The other parts in their initial states, and one of the registries.
RegistryAllInit ==
    Init /\ OutboxInit /\ BusInit /\ FunctionsIdle /\ RegistryInit /\ MaintenanceInit

SpecRegistry == RegistryAllInit /\ [][RegistryNext]_allvars

SpecMaintenance == AllInit /\ [][MaintenanceNext]_allvars

SpecFunctions == CalledInit /\ [][FunctionsNext]_allvars

\* A caller inside handle_event goes on: it gets the mutex when the mutex
\* stays free, runs the loop and returns.  Nothing obliges anyone to call the
\* outbox again.
SpecOutboxFair ==
    /\ SpecOutbox
    /\ \A p \in OutboxThreads :
          /\ WF_allvars(HandleLock(p))
          /\ WF_allvars(HandleStep(p))
          /\ WF_allvars(HandleReturn(p))

\* ---------------------------------------------------- the claims' terms
\* The aggregate a non-empty batch is for: the one its first event belongs to.
AggregateOf(events) == events[1].aggregate_id

\* A batch as save's contract wants it: not empty, all of one aggregate, with
\* versions expected_version + 1, expected_version + 2, ...
WellFormed(events, expected_version) ==
    /\ events /= <<>>
    /\ \A i \in 1..Len(events) :
          /\ events[i].aggregate_id = AggregateOf(events)
          /\ events[i].version = expected_version + i

\* The stored events of aggregate a, oldest first: the events of the stored
\* batches that belong to a, in the order they were stored.
RECURSIVE Log(_, _)
Log(st, a) ==
    IF st = <<>> THEN <<>>
    ELSE LET BelongsTo(e) == e.aggregate_id = a
         IN  SelectSeq(st[1][2], BelongsTo) \o Log(Tail(st), a)

\* The last stored version of aggregate a, 0 when it has no stored event.
LastVersion(st, a) ==
    LET log == Log(st, a) IN IF log = <<>> THEN 0 ELSE log[Len(log)].version

\* Every stored batch came from a save that kept the contract: it was well
\* formed and its expected version was the aggregate's last stored version.
Legit(st) ==
    \A i \in 1..Len(st) :
        /\ WellFormed(st[i][2], st[i][3])
        /\ st[i][3] = LastVersion(SubSeq(st, 1, i - 1), AggregateOf(st[i][2]))

\* The events of a sequence with version >= v.
FromVersion(events, v) ==
    LET AtOrAfter(e) == e.version >= v IN SelectSeq(events, AtOrAfter)

\* The kind of the error a result carries, "none" when it is Ok.
ErrKind(r) == IF r.ok THEN "none" ELSE r.error[1].err[1].kind

\* ------------------------------------------------------------------ C1
\* C1: of the save calls that overlap in time and target the same aggregate
\* with the same expected version, at most one returns success.  Stated of a
\* save that has just returned Ok: no tuple stored while it was in flight is a
\* well-formed batch for the same aggregate and the same expected version.
C1_AtMostOneConcurrentSaveSucceeds ==
    (last.op = "save" /\ last.result.ok /\ WellFormed(last.events, last.version)) =>
        \A i \in (last.seen + 1)..(Len(store) - 1) :
            ~ /\ WellFormed(store[i][2], store[i][3])
              /\ AggregateOf(store[i][2]) = AggregateOf(last.events)
              /\ store[i][3] = last.version

\* ------------------------------------------------------------------ C2
\* C2: in every reachable state the stored events of each aggregate have the
\* versions 1, 2, ..., N in order.
C2_VersionsAreOneToN ==
    \A a \in Ids :
        LET log == Log(store, a) IN \A i \in 1..Len(log) : log[i].version = i

\* ------------------------------------------------------------------ C3
\* C3: a save of a well-formed batch whose expected version is not the last
\* stored version of its aggregate fails with ConcurrencyConflict and leaves
\* the store as it was.
C3_StaleSaveIsRejected ==
    [][\A p \in Procs :
          (/\ SaveCommit(p)
           /\ WellFormed(pending[p].events, pending[p].original_version)
           /\ pending[p].original_version
                 /= LastVersion(store, AggregateOf(pending[p].events)))
          => (/\ store' = store
              /\ ErrKind(last'.result) = "ConcurrencyConflict")]_vars

\* ------------------------------------------------------------------ C4
\* C4: save with an empty batch returns the InvalidInput error "missing
\* events" of operation save, whatever the expected version, and leaves the
\* store as it was.
C4_EmptySaveIsRejected ==
    [][\A p \in Procs, v \in Versions, id \in Ids :
          SaveCall(p, <<>>, v, id)
          => (/\ store' = store
              /\ last'.op = "save" /\ last'.events = <<>> /\ last'.version = v
              /\ ~last'.result.ok
              /\ last'.result.error[1].err = Some(IoError("InvalidInput", "missing events"))
              /\ last'.result.error[1].op = Some("save"))]_vars

\* An empty save has returned its error while the store holds events.
C4_Witness ==
    /\ last.op = "save" /\ last.events = <<>>
    /\ ErrKind(last.result) = "InvalidInput"
    /\ store /= <<>>

\* ------------------------------------------------------------------ C5
\* C5: a save of a non-empty batch that is not well formed (versions not
\* expected_version + 1, + 2, ..., or events of several aggregates) fails with
\* InvalidInput and appends nothing: no stored batch is ill formed, and the
\* last save returned, when its batch was ill formed, returned InvalidInput.
C5_IllFormedSaveIsRejected ==
    /\ \A i \in 1..Len(store) : WellFormed(store[i][2], store[i][3])
    /\ (last.op = "save" /\ last.events /= <<>> /\ ~WellFormed(last.events, last.version))
          => ErrKind(last.result) = "InvalidInput"

\* ------------------------------------------------------------------ C6
\* C6: once a save for aggregate a has returned success, a load of a succeeds
\* and its result holds the events of that save.  The stored batches are the
\* batches of the saves that succeeded.
C6_SavedEventsAreLoaded ==
    [][\A p \in Procs, a \in Ids :
          (Load(p, a) /\ Legit(store))
          => \A i \in 1..Len(store) :
                AggregateOf(store[i][2]) = a
                => /\ last'.result.ok
                   /\ \A k \in 1..Len(store[i][2]) :
                         \E j \in 1..Len(last'.result.value) :
                             last'.result.value[j] = store[i][2][k]]_vars

\* ------------------------------------------------------------------ C7
\* C7: for an aggregate with N events saved over any number of successful
\* saves, load returns exactly those N events, oldest first, versions 1..N.
C7_LoadReturnsTheWholeLog ==
    [][\A p \in Procs, a \in Ids :
          (Load(p, a) /\ Legit(store) /\ Log(store, a) /= <<>>)
          => /\ last'.result.ok
             /\ last'.result.value = Log(store, a)
             /\ \A i \in 1..Len(last'.result.value) :
                   last'.result.value[i].version = i]_vars

\* ------------------------------------------------------------------ C8
\* C8: for an aggregate with saved events, load_from(a, v) returns exactly
\* the aggregate's events with version >= v, in version order.
C8_LoadFromReturnsTheSuffix ==
    [][\A p \in Procs, a \in Ids, v \in Versions :
          (LoadFrom(p, a, v) /\ Legit(store) /\ Log(store, a) /= <<>>)
          => /\ last'.result.ok => last'.result.value = FromVersion(Log(store, a), v)
             /\ FromVersion(Log(store, a), v) /= <<>> => last'.result.ok]_vars

\* ------------------------------------------------------------------ C9
\* C9: load of an id under which nothing is stored returns the NotFound
\* error of operation load that carries the id, and leaves the store as it was.
C9_LoadOfUnknownIdIsNotFound ==
    [][\A p \in Procs, a \in Ids :
          (Load(p, a) /\ \A i \in 1..Len(store) : store[i][1] /= a)
          => (/\ store' = store
              /\ last'.op = "load"
              /\ ~last'.result.ok
              /\ last'.result.error[1].err[1].kind = "NotFound"
              /\ last'.result.error[1].op = Some("load")
              /\ last'.result.error[1].aggregate_id = Some(a))]_vars

\* A load has returned NotFound from a store that holds events under another id.
C9_Witness ==
    /\ last.op = "load"
    /\ ErrKind(last.result) = "NotFound"
    /\ store /= <<>>
    /\ \A i \in 1..Len(store) : Some(store[i][1]) /= last.aggregate_id

\* ------------------------------------------------------------------ C10
\* C10: load_from(a, v) returns NotFound exactly when aggregate a has no
\* stored event with version >= v (none at all included), and the error
\* carries a and v.
C10_LoadFromNotFoundIffNoSuffix ==
    [][\A p \in Procs, a \in Ids, v \in Versions :
          (LoadFrom(p, a, v) /\ Legit(store))
          => /\ ~last'.result.ok <=> FromVersion(Log(store, a), v) = <<>>
             /\ ~last'.result.ok
                   => /\ ErrKind(last'.result) = "NotFound"
                      /\ last'.result.error[1].aggregate_id = Some(a)
                      /\ last'.result.error[1].aggregate_version = Some(v)]_vars

\* ------------------------------------------------- the outbox claims' terms
\* Handler h was given event e and returned an error / returned Ok.
FailedOn(h, e) == \E i \in 1..Len(dlog) : dlog[i] = [handler |-> h, event |-> e, ok |-> FALSE]
SucceededOn(h, e) == \E i \in 1..Len(dlog) : dlog[i] = [handler |-> h, event |-> e, ok |-> TRUE]

\* The errors the failed invocations of a log call for, in the log's order.
RECURSIVE FailuresOf(_)
FailuresOf(log) ==
    IF log = <<>> THEN <<>>
    ELSE LET rest == FailuresOf(SubSeq(log, 1, Len(log) - 1))
             x == log[Len(log)]
         IN  IF x.ok THEN rest ELSE Append(rest, OutboxError("handler failed", x.event))

\* ------------------------------------------------------------------ C11
\* C11: an event whose delivery to the flaky handler failed (the handler
\* would return Ok the next time) is retried and is eventually delivered to
\* that handler with success.
C11_FailedDeliveryIsRetried ==
    \A e \in OutboxEvents : FailedOn("flaky", e) ~> SucceededOn("flaky", e)

\* ------------------------------------------------------------------ C12
\* C12: in every round of handle_event's loop the pair's handler is invoked
\* with the event if and only if the pair's matcher matches it; so a handler
\* registered for "Created" alone is never given a "Renamed" event.
C12_InvokedIffMatched ==
    [][\A p \in OutboxThreads :
          HandleStep(p)
          => LET pair == handlers[ocur[p].idx]
                 e == ocur[p].event
             IN  /\ matches(pair[1], e)
                      => /\ Len(dlog') = Len(dlog) + 1
                         /\ SubSeq(dlog', 1, Len(dlog)) = dlog
                         /\ dlog'[Len(dlog')].handler = pair[2]
                         /\ dlog'[Len(dlog')].event = e
                 /\ ~matches(pair[1], e) => dlog' = dlog
                 /\ (\A i \in 1..Len(handlers) :
                        handlers[i][2] = pair[2] => handlers[i][1] = "Created")
                      => \A i \in 1..Len(dlog') :
                            dlog'[i].handler = pair[2]
                            => dlog'[i].event.event_type = "Created"]_allvars

\* A handler registered for "Created" has been given a Created event, and a
\* Renamed event has gone through handle_event without reaching any handler.
C12_Witness ==
    /\ handlers /= <<>>
    /\ \A i \in 1..Len(handlers) : handlers[i][1] = "Created"
    /\ \E i \in 1..Len(dlog) : dlog[i].event.event_type = "Created"
    /\ oret.op = "handle_event" /\ oret.event.event_type = "Renamed"
    /\ \A i \in 1..Len(dlog) : dlog[i].event /= oret.event

\* ------------------------------------------------------------------ C13
\* C13: the error channel holds exactly one error for every failed handler
\* invocation, in the order of the failures, each with the handler's error
\* and the event that was being delivered (nothing reads the channel).
C13_OneErrorPerFailure == errors = FailuresOf(dlog)

\* Two deliveries have failed and the channel holds their two errors.
C13_Witness ==
    /\ Len(errors) = 2
    /\ errors[1].event /= errors[2].event

\* ------------------------------------------------------------------ C14
\* C14: handle_event returns Ok, whatever the event and the handlers, also
\* when a matching handler failed.
C14_HandleEventReturnsOk == oret.op = "handle_event" => oret.result.ok

\* handle_event has returned for an event that a matching handler failed on.
C14_Witness ==
    /\ oret.op = "handle_event"
    /\ FailedOn("flaky", oret.event)

\* ------------------------------------------------------------------ C15
\* C15: add_handler fails for a handler whose identity is already in the
\* table and leaves the table as it was: no handler is in the table twice.
C15_NoHandlerRegisteredTwice ==
    \A i, j \in 1..Len(handlers) : i /= j => handlers[i][2] /= handlers[j][2]

\* ------------------------------------------------------------------ C16
\* C16: a caller inside handle_event's loop can always take its next step,
\* however many errors lie unread in the channel.
C16_DeliveryNeverBlocks ==
    \A p \in OutboxThreads :
        opc[p] = "handling"
        => IF ocur[p].idx <= Len(handlers)
           THEN ENABLED HandleStep(p)
           ELSE ENABLED HandleReturn(p)

\* handle_event has returned with two errors unread in the channel.
C16_Witness ==
    /\ Len(errors) >= 2
    /\ oret.op = "handle_event"
    /\ FailedOn("flaky", oret.event)
    /\ errors[1].event /= oret.event

\* ------------------------------------------------------------------ C17
\* C17: however often start() is called, at most one worker is started.
C17_AtMostOneWorker == spawned <= 1

\* ------------------------------------------------------------------ C18
\* C18: once close() has returned, no handler is invoked: the deliveries in
\* flight have finished and none starts.
C18_CloseStopsDelivery == [][closed => dlog' = dlog]_allvars

C20_AddHandlerRejectsDuplicates ==
    bret /= <<>>
    => LET r == bret[1]
       IN  IF r.key \in r.before
           THEN r.result = Err("HandlerAlreadyAdded") /\ r.after = r.before
           ELSE r.result = Ok(<<>>) /\ r.after = r.before \cup {r.key}

\* A handler has been added to a table that held another one, and a second
\* add_handler with a handler already in the table has returned since.
C20_Witness ==
    /\ Cardinality(bus) >= 2
    /\ bret /= <<>>
    /\ bret[1].key \in bret[1].before
    /\ ~bret[1].result.ok

\* ------------------------------------------------------------------ C22
\* C22: the matcher given at registration governs the dispatch to its
\* handler: once add_handler(matcher, handler) has returned Ok, the bus holds
\* the handler paired with that matcher, to be asked about each event.
C22_RegisteredMatcherGovernsDispatch ==
    (bret /= <<>> /\ bret[1].result.ok)
    => LET e == bus_entry(bret[1].after, bret[1].key)
       IN  /\ e /= None
           /\ "matcher" \in DOMAIN e[1]
           /\ e[1].matcher = bret[1].matcher

\* ------------------------------------------------------------------ C23
\* C23: dispatches only read the table and do not exclude each other: while a
\* handle_event is in its loop over the table, the table's lock is open to
\* another handle_event.
C23_DispatchesShareTheTable ==
    \A p \in OutboxThreads : opc[p] = "handling" => olock = "none"

\* ----------------------------------------------- the matcher claims' terms
Range(s) == {s[i] : i \in 1..Len(s)}

\* What a matcher means: membership for the two type matchers, OR and AND
\* over the listed matchers for the two combinators.
RECURSIVE Means(_, _)
Means(m, e) ==
    CASE m.kind = "MatchEvents" -> e.event_type \in Range(m.event_types)
      [] m.kind = "MatchAggregates" -> e.aggregate_type \in Range(m.aggregate_types)
      [] m.kind = "MatchAny" -> \E x \in Range(m.matchers) : Means(x, e)
      [] m.kind = "MatchAll" -> \A x \in Range(m.matchers) : Means(x, e)

Matched(kind) == fcall.done /\ fcall.args.fn = "matches" /\ fcall.args.matcher.kind = kind

\* ------------------------------------------------------------------ C24
\* C24: MatchEvents(types).matches(e) is true exactly when e's event type is
\* one of types, whatever e's aggregate type; MatchEvents([]) matches nothing.
C24_MatchEventsIsMembership ==
    Matched("MatchEvents")
    => /\ fcall.result = (fcall.args.event.event_type \in Range(fcall.args.matcher.event_types))
       /\ fcall.args.matcher.event_types = <<>> => ~fcall.result

\* A list of two types, the event's being the second, has matched.
C24_Witness ==
    /\ Matched("MatchEvents")
    /\ fcall.args.matcher.event_types = <<"t1", "t2">>
    /\ fcall.args.event.event_type = "t2"
    /\ fcall.result

\* ------------------------------------------------------------------ C25
\* C25: MatchAggregates(types).matches(e) is true exactly when e's aggregate
\* type is one of types, whatever e's event type.
C25_MatchAggregatesIsMembership ==
    Matched("MatchAggregates")
    => fcall.result = (fcall.args.event.aggregate_type \in Range(fcall.args.matcher.aggregate_types))

\* A list of two aggregate types, the event's being the second, has matched.
C25_Witness ==
    /\ Matched("MatchAggregates")
    /\ fcall.args.matcher.aggregate_types = <<"g1", "g2">>
    /\ fcall.args.event.aggregate_type = "g2"
    /\ fcall.result

\* ------------------------------------------------------------------ C26
\* C26: MatchAny(ms).matches(e) is the OR of what the matchers of ms mean for
\* e, nested lists included; MatchAny([]) matches nothing.
C26_MatchAnyIsOr ==
    Matched("MatchAny")
    => /\ fcall.result = (\E x \in Range(fcall.args.matcher.matchers) : Means(x, fcall.args.event))
       /\ fcall.args.matcher.matchers = <<>> => ~fcall.result

\* A MatchAny of a matcher that rejects the event and a nested MatchAll that
\* accepts it has matched.
C26_Witness ==
    /\ Matched("MatchAny")
    /\ fcall.args.matcher.matchers =
         <<MatchAggregates_new(<<"g1">>),
           MatchAll_new(<<MatchEvents_new(<<"t1">>), MatchAggregates_new(<<"g2">>)>>)>>
    /\ fcall.args.event = [event_type |-> "t1", aggregate_type |-> "g2"]
    /\ fcall.result

\* ------------------------------------------------------------------ C27
\* C27: MatchAll(ms).matches(e) is the AND of what the matchers of ms mean for
\* e, nested lists included; MatchAll([]) matches everything.
C27_MatchAllIsAnd ==
    Matched("MatchAll")
    => /\ fcall.result = (\A x \in Range(fcall.args.matcher.matchers) : Means(x, fcall.args.event))
       /\ fcall.args.matcher.matchers = <<>> => fcall.result

\* MatchAll([]) has matched an event.
C27_Witness ==
    /\ Matched("MatchAll")
    /\ fcall.args.matcher.matchers = <<>>
    /\ fcall.result

\* -------------------------------------------- the function claims' terms
Used(fn) == fcall.done /\ fcall.args.fn = fn

\* The trace of one call through the middlewares ms: each one's "before" in
\* the list's order, the terminal handler once, each one's "after" in the
\* opposite order.
Onion(ms, t) ==
    LET n == Len(ms)
    IN  /\ Len(t) = 2 * n + 1
        /\ \A i \in 1..n :
              /\ t[i].who = ms[i] /\ t[i].phase = "before"
              /\ t[2 * n + 2 - i].who = ms[i] /\ t[2 * n + 2 - i].phase = "after"
        /\ t[n + 1].who = "terminal"
        /\ Cardinality({i \in 1..Len(t) : t[i].who = "terminal"}) = 1

\* ------------------------------------------------------------------ C28
\* C28: one call of the handler built by use_command_handler_middleware or
\* use_event_handler_middleware from [m0, ..., mk] runs m0-before, ...,
\* mk-before, the terminal handler once, mk-after, ..., m0-after: the first
\* middleware of the list is the outermost.
C28_FirstMiddlewareIsOutermost ==
    (Used("use_command_handler_middleware") \/ Used("use_event_handler_middleware"))
    => Onion(fcall.args.middlewares, fcall.result.trace)

\* A command has gone through three different middlewares, m2 outermost.
C28_Witness ==
    /\ Used("use_command_handler_middleware")
    /\ fcall.args.middlewares = <<"m2", "m1", "m3">>
    /\ fcall.result.trace[1].who = "m2"
    /\ fcall.result.trace[4].who = "terminal"
    /\ fcall.result.trace[7].who = "m2"

\* ------------------------------------------------------------------ C29
\* C29: the wrapped command handler gives its caller the error the terminal
\* handler ended with.
C29_TerminalErrorIsReturned ==
    (Used("use_command_handler_middleware") /\ ~fcall.args.handler.outcome.ok)
    => /\ fcall.result.returned /= unit
       /\ fcall.result.returned = fcall.args.handler.outcome

\* ------------------------------------------------------------------ C30
\* C30: check_command returns the "missing aggregate ID" error for a command
\* whose aggregate id is the nil Uuid, and Ok for every other command.
C30_NilAggregateIdIsRejected ==
    Used("check_command")
    => IF fcall.args.cmd.id = "nil"
       THEN fcall.result = Err([field |-> "missing aggregate ID"])
       ELSE fcall.result = Ok(<<>>)

\* The command with the nil id has been rejected.
C30_Witness ==
    /\ Used("check_command")
    /\ fcall.args.cmd.id = "nil"
    /\ ~fcall.result.ok

\* ------------------------------------------------------------------ C39
\* The handlers of the pairs of a table whose matcher accepts the event, in
\* the table's order.
RECURSIVE Accepting(_, _)
Accepting(table, e) ==
    IF table = <<>> THEN <<>>
    ELSE LET rest == Accepting(SubSeq(table, 1, Len(table) - 1), e)
             x == table[Len(table)]
         IN  IF matches(x[1], e) THEN Append(rest, x[2]) ELSE rest

\* The handlers a log shows invoked with the event, in the log's order.
RECURSIVE InvokedWith(_, _)
InvokedWith(log, e) ==
    IF log = <<>> THEN <<>>
    ELSE LET rest == InvokedWith(SubSeq(log, 1, Len(log) - 1), e)
             x == log[Len(log)]
         IN  IF x.event = e THEN Append(rest, x.handler) ELSE rest

\* C39: within one handle_event call a failing handler does not keep the
\* other matching handlers from the event: when the call returns, the
\* handlers invoked with the event are those of the accepting pairs, each
\* once, in the order of registration, whatever the earlier handlers
\* returned; and no step of the call changes the table.
C39_FailureDoesNotStopTheLoop ==
    [][\A p \in OutboxThreads :
          /\ (\/ \E e \in OutboxEvents : HandleCall(p, e)
              \/ HandleLock(p) \/ HandleStep(p) \/ HandleReturn(p))
                => handlers' = handlers
          /\ HandleReturn(p)
                => InvokedWith(dlog', ocur[p].event)
                       = Accepting(handlers', ocur[p].event)]_allvars

\* handle_event has returned for an event on which the first registered
\* handler failed and the second, registered for the same type, was invoked.
C39_Witness ==
    /\ oret.op = "handle_event"
    /\ Len(handlers) = 2
    /\ matches(handlers[1][1], oret.event) /\ matches(handlers[2][1], oret.event)
    /\ \E i, j \in 1..Len(dlog) :
          /\ i < j
          /\ dlog[i] = [handler |-> handlers[1][2], event |-> oret.event, ok |-> FALSE]
          /\ dlog[j].handler = handlers[2][2] /\ dlog[j].event = oret.event

\* ------------------------------------------------------------------ C31
\* C31: in each of the four registries a registration of a type name the
\* map already holds fails loudly (the call panics) and overwrites nothing:
\* after the failed call the map is what it was, the name still mapped to
\* the factory registered first.
C31_DuplicateRegistrationFailsLoudly ==
    [][\A name \in TypeNames, factory \in Factories :
          Register(name, factory) /\ name \in DOMAIN registry
          => /\ rret'.end.panicked
             /\ registry' = registry
             /\ registry'[name] = registry[name]]_allvars

\* A second registration of a name, with another factory, has panicked and
\* the name is mapped to the first factory.
C31_Witness ==
    /\ rret.op = "register" /\ rret.end.panicked
    /\ rret.name \in rejected
    /\ rret.name \in DOMAIN registry
    /\ registry[rret.name] /= rret.factory

\* ------------------------------------------------------------------ C35
\* C35: create for a type name that was never registered returns the 'not
\* registered' error; create for a registered name returns the instance made
\* by the factory registered under exactly that name (with the id passed as
\* its entity_id); and create leaves the registry as it is.
C35_CreateIsALookup ==
    [][\A name \in TypeNames, id \in CreateIds(rkind) :
          Create(name, id)
          => /\ name \notin DOMAIN registry
                  => rret'.end = Returns(Err(not_registered(rkind)))
             /\ name \in DOMAIN registry
                  => rret'.end = Returns(Ok(factory_call(registry[name], id)))
             /\ registry' = registry]_allvars

\* ------------------------------------------------------------------ C40
\* C40: the registry stays usable after a rejected duplicate registration:
\* once a second registration of a name has panicked, create still succeeds
\* for every registered name and returns 'not registered' for the others,
\* and a registration of a name not yet registered still registers it.
C40_RegistryUsableAfterRejection ==
    [][rejected /= {}
       => /\ \A name \in TypeNames, id \in CreateIds(rkind) :
                Create(name, id)
                => /\ ~rret'.end.panicked
                   /\ name \in DOMAIN registry <=> rret'.end.value.ok
          /\ \A name \in TypeNames \ {""}, factory \in Factories :
                Register(name, factory) /\ name \notin DOMAIN registry
                => /\ ~rret'.end.panicked
                   /\ name \in DOMAIN registry'
                   /\ registry'[name] = factory]_allvars

\* ------------------------------------------------------------------ C33
\* The (aggregate_id, version) pair of an event.
PairOf(e) == <<e.aggregate_id, e.version>>

\* C33: replace(event) writes only over a stored event with the aggregate id
\* and the version of the given event, so that the (aggregate_id, version)
\* pair at every position of the store is the same before and after every
\* replace and every rename_event.
C33_MaintenanceKeepsIdAndVersion ==
    [][(\/ \E event \in StoredEvents : Replace(event)
        \/ \E from \in StoredTypes, to \in StoredTypes : RenameEvent(from, to))
       => /\ Len(mevents') = Len(mevents)
          /\ \A i \in 1..Len(mevents) : PairOf(mevents'[i]) = PairOf(mevents[i])]_allvars

\* ------------------------------------------------------------------ C34
\* C34: after rename_event(from, to) has returned success every stored event
\* that had type `from` has type `to` and is otherwise the same, no stored
\* event has type `from` (for from /= to), and the others are unchanged.
C34_RenameRenames ==
    [][\A from \in StoredTypes, to \in StoredTypes :
          RenameEvent(from, to) /\ mret'.result.ok
          => /\ Len(mevents') = Len(mevents)
             /\ \A i \in 1..Len(mevents) :
                   mevents'[i] = IF mevents[i].event_type = from
                                 THEN [mevents[i] EXCEPT !.event_type = to]
                                 ELSE mevents[i]
             /\ from /= to => \A i \in 1..Len(mevents') : mevents'[i].event_type /= from]_allvars

Compared == fcall.done /\ fcall.args.fn = "compare_events"

\* C37: compare_events is reflexive: compared without options with a clone
\* of itself (every field equal), every event, also one with metadata,
\* gets Ok.
C37_CompareEventsIsReflexive ==
    Compared /\ fcall.args.differ = {} /\ fcall.args.options = {}
    => fcall.result.ok

\* ------------------------------------------------------------------ C38
\* C38: compare_events returns an error whenever the two events differ in
\* their data payload, whatever the other fields and the options are.
C38_DataMismatchIsAnError ==
    Compared /\ "data" \in fcall.args.differ => ~fcall.result.ok

\* ------------------------------------------------------------------ C32
\* C32: for every history and every version k within it, replaying all the
\* events onto a fresh aggregate gives the state that applying the snapshot
\* taken at k and replaying the events with version > k gives; and the
\* repository's load returns that state whether the snapshot is present
\* (k = n), stale (k < n) or absent.
C32_SnapshotRoundTrip ==
    fcall.done /\ fcall.args.fn = "Repository.load"
    => LET a == fcall.args
           history == HistoryOf(a.id, a.n)
           full == replay(Aggregate_new(a.id), history)
       IN  /\ \A k \in 1..a.n :
                 replay(apply_snapshot(Aggregate_new(a.id), snapshot_taken(a.id, a.n, k)[1]),
                        SubSeq(history, k + 1, a.n)) = full
           /\ fcall.result = Ok(full)

====
